---- MODULE Spec2Model ----
(***************************************************************************)
(* Model of the ACIS SAB decoder of ezdxf (src/src/ezdxf/_acis/sab.py):    *)
(* Decoder (byte cursor, header, record reader), build_entities,           *)
(* resolve_pointers, SabBuilder.set_entities and parse_sab.                *)
(*                                                                         *)
(* Bytes are integers 0..255.  A Python value is a record [kind, v] whose  *)
(* v is a sequence of integers:                                            *)
(*   "int"    <<n>>          a Python int                                  *)
(*   "bool"   <<0>> / <<1>>  False / True                                  *)
(*   "str"    code points    a Python str                                  *)
(*   "double" 8 bytes        a float, kept as its IEEE-754 bit pattern     *)
(*   "vec"    24 bytes       a tuple of three floats                       *)
(*   "ref"    <<j>>          the SabEntity object at list position j       *)
(*   "null"   <<>>           the module-level NULL_PTR object              *)
(*   "none"   <<>>           None                                          *)
(***************************************************************************)
EXTENDS Integers, Sequences, FiniteSets, TLC

VARIABLES
    data,           \* Decoder.data: the whole input buffer
    index,          \* Decoder.index
    pc,             \* position inside parse_sab
    err,            \* the exception parse_sab / resolve_pointers ended with
    header,         \* builder.header
    values,         \* read_record: values
    entity_type,    \* read_record: entity_type
    subtype_level,  \* read_record: subtype_level
    entities,       \* parse_sab: the list object `entities`
    builder_set,    \* TRUE once set_entities made builder.entities that list
    bodies,         \* builder.bodies, as positions in `entities`
    null_ptr,       \* the module-level NULL_PTR object
    ended_by,       \* how the last read_record call returned
    calls,          \* number of resolve_pointers calls made on `entities`
    before,         \* `entities` as it was when the last resolve_pointers call began
    loader          \* a SabDataLoader and the outcome of the last call made on it

vars == <<data, index, pc, err, header, values, entity_type, subtype_level,
          entities, builder_set, bodies, null_ptr, ended_by, calls, before,
          loader>>

-----------------------------------------------------------------------------
(* Bounds of the model *)

\* read_record keeps at most this many tokens of one record in the model;
\* it is larger than the number of tokens any terminating read produces
MaxTokens == 24
\* resolve_pointers is called at most this often on one entity list
MaxResolveCalls == 2
\* raw pointer values of the generated records range over -(MaxPtr+1)..MaxPtr
MaxPtr == 3
\* a SabDataLoader is made over a payload of at most this many tokens
MaxPayload == 2

-----------------------------------------------------------------------------
(* Python values *)

V(kind, v) == [kind |-> kind, v |-> v]
PyInt(n) == V("int", <<n>>)
PyBool(b) == V("bool", <<IF b THEN 1 ELSE 0>>)
PyStr(s) == V("str", s)
PyNone == V("none", <<>>)
Ref(j) == V("ref", <<j>>)
NullRef == V("null", <<>>)

Token(tag, value) == [tag |-> tag, value |-> value]

Min(a, b) == IF a < b THEN a ELSE b
Max(a, b) == IF a > b THEN a ELSE b

\* s[i] of Python for a sequence of length n: valid for -n <= i < n
PyIndexOk(n, i) == -n <= i /\ i < n
PyNorm(n, i) == IF i < 0 THEN i + n ELSE i
PyAt(s, i) == s[PyNorm(Len(s), i) + 1]

\* s[a:b] of Python
PyClamp(n, i) == IF i < 0 THEN Max(i + n, 0) ELSE Min(i, n)
PySlice(s, a, b) ==
    LET lo == PyClamp(Len(s), a)
        hi == PyClamp(Len(s), b)
    IN  IF lo >= hi THEN <<>> ELSE SubSeq(s, lo + 1, hi)

\* s.startswith(prefix)
StartsWith(s, prefix) ==
    Len(s) >= Len(prefix) /\ SubSeq(s, 1, Len(prefix)) = prefix

\* the parts put together with nothing between them
RECURSIVE Join_plain(_)
Join_plain(parts) ==
    IF parts = <<>> THEN <<>> ELSE parts[1] \o Join_plain(Tail(parts))

\* "-".join(parts)
RECURSIVE Join(_)
Join(parts) ==
    IF parts = <<>> THEN <<>>
    ELSE IF Len(parts) = 1 THEN parts[1]
    ELSE parts[1] \o <<45>> \o Join(Tail(parts))

-----------------------------------------------------------------------------
(* ezdxf._acis.const: Tags and DATA_END_MARKERS *)

INT == 4
DOUBLE == 6
STR == 7
BOOL_TRUE == 10
BOOL_FALSE == 11
POINTER == 12
ENTITY_TYPE == 13
ENTITY_TYPE_EX == 14
SUBTYPE_START == 15
SUBTYPE_END == 16
RECORD_END == 17
LITERAL_STR == 18
LOCATION_VEC == 19
DIRECTION_VEC == 20
ENUM == 21
UNKNOWN_0x17 == 23

\* "End-of-ACIS-data", "End-of-ASM-data"
END_OF_ACIS_DATA == <<69,110,100,45,111,102,45,65,67,73,83,45,100,97,116,97>>
END_OF_ASM_DATA == <<69,110,100,45,111,102,45,65,83,77,45,100,97,116,97>>
DATA_END_MARKERS == {END_OF_ACIS_DATA, END_OF_ASM_DATA}

\* value in DATA_END_MARKERS
IsEndMarker(value) == value.kind = "str" /\ value.v \in DATA_END_MARKERS

\* DATE_FMT = "%a %b %d %H:%M:%S %Y"; "Sat Jan 01 00:00:00 2022" is the
\* one date text the generated headers carry
GOOD_DATE == <<83,97,116,32,74,97,110,32,48,49,32,48,48,58,48,48,58,48,48,32,50,48,50,50>>

\* datetime.strptime(date, DATE_FMT) succeeds
DateParses(s) == s = GOOD_DATE

-----------------------------------------------------------------------------
(* Signatures *)

\* b"ACIS BinaryFile", b"ASM BinaryFile4"
ACIS_SIGNATURE == <<65,67,73,83,32,66,105,110,97,114,121,70,105,108,101>>
ASM_SIGNATURE == <<65,83,77,32,66,105,110,97,114,121,70,105,108,101,52>>
SIGNATURES == <<ACIS_SIGNATURE, ASM_SIGNATURE>>

\* build_entities: versions from this one on carry an id field
ID_VERSION == 700

-----------------------------------------------------------------------------
(* Decoder: the byte cursor *)

\* four little-endian bytes taken as an unsigned integer
LE32_unsigned(b0, b1, b2, b3) ==
    b0 + 256 * b1 + 65536 * b2 + 16777216 * (b3 % 128)

\* struct "<i": four little-endian bytes as a signed 32-bit integer
LE32(b0, b1, b2, b3) ==
    b0 + 256 * b1 + 65536 * b2 + 16777216 * (IF b3 >= 128 THEN b3 - 256 ELSE b3)

\* struct.unpack_from(fmt, data, pos) has `size` bytes at offset pos
\* (a negative offset counts from the end of the buffer)
UnpackOk(d, pos, size) ==
    LET off == PyNorm(Len(d), pos)
    IN  off >= 0 /\ off + size <= Len(d)

\* bytes.decode(): the buffers of the model hold no valid multi-byte
\* UTF-8 sequence, so a text decodes iff all of its bytes are ASCII
DecodeOk(bytes) == \A i \in 1..Len(bytes) : bytes[i] < 128

has_data(d, idx) == idx < Len(d)

forward(idx, count) == [pos |-> idx, index |-> idx + count]

read_byte(d, idx) ==
    LET f == forward(idx, 1)
        ok == PyIndexOk(Len(d), f.pos)
    IN  [err |-> IF ok THEN "none" ELSE "IndexError",
         val |-> IF ok THEN PyAt(d, f.pos) ELSE 0,
         index |-> f.index]

read_bytes(d, idx, count) ==
    LET f == forward(idx, count)
    IN  [err |-> "none", val |-> PySlice(d, f.pos, f.pos + count), index |-> f.index]

read_int(d, idx) ==
    LET f == forward(idx, 4)
        ok == UnpackOk(d, f.pos, 4)
        o == PyNorm(Len(d), f.pos)
    IN  [err |-> IF ok THEN "none" ELSE "struct.error",
         val |-> IF ok THEN LE32(d[o + 1], d[o + 2], d[o + 3], d[o + 4]) ELSE 0,
         index |-> f.index]

read_floats(d, idx, count) ==
    LET f == forward(idx, 8 * count)
        ok == UnpackOk(d, f.pos, 8 * count)
        o == PyNorm(Len(d), f.pos)
    IN  [err |-> IF ok THEN "none" ELSE "struct.error",
         val |-> IF ok THEN SubSeq(d, o + 1, o + 8 * count) ELSE <<>>,
         index |-> f.index]

read_float(d, idx) == read_floats(d, idx, 1)

read_str(d, idx, length) ==
    LET r == read_bytes(d, idx, length)
    IN  [err |-> IF DecodeOk(r.val) THEN "none" ELSE "UnicodeDecodeError",
         val |-> r.val,
         index |-> r.index]

\* read_str(read_byte()): a length byte, then that many bytes of text
read_short_str(d, idx) ==
    LET n == read_byte(d, idx)
    IN  IF n.err # "none" THEN [err |-> n.err, val |-> <<>>, index |-> n.index]
        ELSE read_str(d, n.index, n.val)

\* read_str(read_int()): a 4-byte signed length, then the text
read_long_str(d, idx) ==
    LET n == read_int(d, idx)
    IN  IF n.err # "none" THEN [err |-> n.err, val |-> <<>>, index |-> n.index]
        ELSE read_str(d, n.index, n.val)

read_str_tag(d, idx) ==
    LET t == read_byte(d, idx)
    IN  IF t.err # "none" THEN [err |-> t.err, val |-> <<>>, index |-> t.index]
        ELSE IF t.val # STR THEN [err |-> "ParsingError", val |-> <<>>, index |-> t.index]
        ELSE read_short_str(d, t.index)

\* the double is read whatever the byte before it is
read_double_tag_unchecked(d, idx) ==
    LET t == read_byte(d, idx)
    IN  IF t.err # "none" THEN [err |-> t.err, val |-> <<>>, index |-> t.index]
        ELSE read_float(d, t.index)

read_double_tag(d, idx) ==
    LET t == read_byte(d, idx)
    IN  IF t.err # "none" THEN [err |-> t.err, val |-> <<>>, index |-> t.index]
        ELSE IF t.val # DOUBLE THEN [err |-> "ParsingError", val |-> <<>>, index |-> t.index]
        ELSE read_float(d, t.index)

-----------------------------------------------------------------------------
(* Decoder.read_header *)

NoHeader ==
    [version |-> 0, n_records |-> 0, n_entities |-> 0, flags |-> 0,
     product_id |-> <<>>, acis_version |-> <<>>, creation_date |-> <<>>,
     units_in_mm |-> <<>>]

\* only the first signature of SIGNATURES is looked for
MatchingSignature_first_only(d) ==
    IF StartsWith(d, SIGNATURES[1]) THEN 1 ELSE 0

\* the first signature, in the order of SIGNATURES, the buffer starts with
MatchingSignature(d) ==
    IF StartsWith(d, SIGNATURES[1]) THEN 1
    ELSE IF StartsWith(d, SIGNATURES[2]) THEN 2
    ELSE 0

\* the position, in the order of the reads, of the first read that raised
FirstFailure(rs) ==
    LET bad == {i \in 1..Len(rs) : rs[i].err # "none"}
    IN  IF bad = {} THEN 0 ELSE CHOOSE i \in bad : \A j \in bad : i <= j

\* the reads run in the fixed order of the code; the first one that raises
\* ends read_header, with the cursor where that read left it and no header
read_header(d) ==
    LET m == MatchingSignature(d) IN
    IF m = 0 THEN [err |-> "ParsingError", index |-> 0, header |-> NoHeader]
    ELSE
    LET version == read_int(d, Len(SIGNATURES[m]))
        n_records == read_int(d, version.index)
        n_entities == read_int(d, n_records.index)
        flags == read_int(d, n_entities.index)
        product_id == read_str_tag(d, flags.index)
        acis_version == read_str_tag(d, product_id.index)
        date == read_str_tag(d, acis_version.index)
        strptime == [err |-> IF DateParses(date.val) THEN "none" ELSE "ValueError",
                     val |-> date.val, index |-> date.index]
        units_in_mm == read_double_tag(d, date.index)
        res_tol == read_double_tag(d, units_in_mm.index)
        nor_tol == read_double_tag(d, res_tol.index)
        rs == <<version, n_records, n_entities, flags, product_id, acis_version,
                date, strptime, units_in_mm, res_tol, nor_tol>>
        k == FirstFailure(rs)
    IN  IF k # 0 THEN [err |-> rs[k].err, index |-> rs[k].index, header |-> NoHeader]
        ELSE [err |-> "none",
              index |-> nor_tol.index,
              header |-> [version |-> version.val, n_records |-> n_records.val,
                          n_entities |-> n_entities.val, flags |-> flags.val,
                          product_id |-> product_id.val,
                          acis_version |-> acis_version.val,
                          creation_date |-> date.val,
                          units_in_mm |-> units_in_mm.val]]

-----------------------------------------------------------------------------
(* Decoder.read_record: one pass of its `while True` loop *)

\* values.append(token); the model keeps the first MaxTokens tokens
AppendToken(vals, token) ==
    IF Len(vals) < MaxTokens THEN Append(vals, token) ELSE vals

Continue(idx, vals, etype, lvl) ==
    [outcome |-> "continue", err |-> "none", index |-> idx, values |-> vals,
     entity_type |-> etype, subtype_level |-> lvl]

\* `return values`: at the terminator tag, or at the end of the buffer
Return(how, idx, vals, etype, lvl) ==
    [outcome |-> how, err |-> "none", index |-> idx, values |-> vals,
     entity_type |-> etype, subtype_level |-> lvl]

\* an exception leaves read_record; the locals are kept as they were
Raise(e, idx, vals, etype, lvl) ==
    [outcome |-> "raise", err |-> e, index |-> idx, values |-> vals,
     entity_type |-> etype, subtype_level |-> lvl]

\* every record with a token counts as complete at the end of the buffer
end_of_data_any(idx, vals, etype, lvl) ==
    IF vals # <<>>
    THEN Return("exhausted", idx, vals, etype, lvl)
    ELSE Raise("ParsingError", idx, vals, etype, lvl)

\* the buffer is exhausted: the record is complete only if its first token
\* is an end-of-data marker
end_of_data(idx, vals, etype, lvl) ==
    IF vals # <<>> /\ IsEndMarker(vals[1].value)
    THEN Return("exhausted", idx, vals, etype, lvl)
    ELSE Raise("ParsingError", idx, vals, etype, lvl)

\* the tag is none of the known ones; the message of the ParsingError
\* reads values[0]
unknown_tag(idx, vals, etype, lvl) ==
    IF vals = <<>> THEN Raise("IndexError", idx, vals, etype, lvl)
    ELSE Raise("ParsingError", idx, vals, etype, lvl)

\* a tag whose token is Token(tag, <value read by `r`>)
ValueToken(r, tag, value, vals, etype, lvl) ==
    IF r.err # "none" THEN Raise(r.err, r.index, vals, etype, lvl)
    ELSE Continue(r.index, AppendToken(vals, Token(tag, value)), etype, lvl)

\* subtype_level += 1; values.append(Token(tag, subtype_level))
subtype_start(idx, vals, etype, lvl) ==
    Continue(idx, AppendToken(vals, Token(SUBTYPE_START, PyInt(lvl + 1))), etype, lvl + 1)

\* the end token carries the depth after the decrement
subtype_end_after(idx, vals, etype, lvl) ==
    Continue(idx, AppendToken(vals, Token(SUBTYPE_END, PyInt(lvl - 1))), etype, lvl - 1)

\* values.append(Token(tag, subtype_level)); subtype_level -= 1
subtype_end(idx, vals, etype, lvl) ==
    Continue(idx, AppendToken(vals, Token(SUBTYPE_END, PyInt(lvl))), etype, lvl - 1)

read_record_step(d, idx, vals, etype, lvl) ==
    IF ~has_data(d, idx) THEN end_of_data(idx, vals, etype, lvl)
    ELSE
    LET t == read_byte(d, idx)
        tag == t.val
        i == t.index
    IN  IF t.err # "none" THEN Raise(t.err, i, vals, etype, lvl)
        ELSE IF tag \in {INT, POINTER, ENUM} THEN
            LET r == read_int(d, i)
            IN  ValueToken(r, tag, PyInt(r.val), vals, etype, lvl)
        ELSE IF tag \in {DOUBLE, UNKNOWN_0x17} THEN
            LET r == read_float(d, i)
            IN  ValueToken(r, tag, V("double", r.val), vals, etype, lvl)
        ELSE IF tag = STR THEN
            LET r == read_short_str(d, i)
            IN  ValueToken(r, tag, PyStr(r.val), vals, etype, lvl)
        ELSE IF tag = BOOL_TRUE THEN
            Continue(i, AppendToken(vals, Token(tag, PyBool(TRUE))), etype, lvl)
        ELSE IF tag = BOOL_FALSE THEN
            Continue(i, AppendToken(vals, Token(tag, PyBool(FALSE))), etype, lvl)
        ELSE IF tag = LITERAL_STR THEN
            LET r == read_long_str(d, i)
            IN  ValueToken(r, tag, PyStr(r.val), vals, etype, lvl)
        ELSE IF tag = ENTITY_TYPE_EX THEN
            LET r == read_short_str(d, i)
            IN  IF r.err # "none" THEN Raise(r.err, r.index, vals, etype, lvl)
                ELSE Continue(r.index, vals, Append(etype, r.val), lvl)
        ELSE IF tag = ENTITY_TYPE THEN
            LET r == read_short_str(d, i)
            IN  IF r.err # "none" THEN Raise(r.err, r.index, vals, etype, lvl)
                ELSE Continue(r.index,
                              AppendToken(vals, Token(tag, PyStr(Join(Append(etype, r.val))))),
                              <<>>, lvl)
        ELSE IF tag \in {LOCATION_VEC, DIRECTION_VEC} THEN
            LET r == read_floats(d, i, 3)
            IN  ValueToken(r, tag, V("vec", r.val), vals, etype, lvl)
        ELSE IF tag = SUBTYPE_START THEN subtype_start(i, vals, etype, lvl)
        ELSE IF tag = SUBTYPE_END THEN subtype_end(i, vals, etype, lvl)
        ELSE IF tag = RECORD_END THEN
            Return("terminator", i, vals, etype, lvl)
        ELSE unknown_tag(i, vals, etype, lvl)

-----------------------------------------------------------------------------
(* SabEntity, NULL_PTR, build_entities *)

SabEntity(name, attr_ptr, id, dat) ==
    [name |-> name, attr_ptr |-> attr_ptr, id |-> id, data |-> dat,
     attributes |-> PyNone]

\* "null-ptr"
NULL_PTR_NAME == <<110,117,108,108,45,112,116,114>>
NULL_PTR == SabEntity(PyStr(NULL_PTR_NAME), PyInt(-1), PyInt(-1), <<>>)

\* the id field only above the threshold version
has_id_above(version) == version > ID_VERSION

\* version >= 700: the record has an id field
has_id(version) == version >= ID_VERSION

\* the end-of-data record yields its entity and the loop goes on
build_entity_no_stop(rec, version) ==
    IF Len(rec) < 1 THEN [outcome |-> "raise", err |-> "IndexError"]
    ELSE IF IsEndMarker(rec[1].value) THEN
        [outcome |-> "entity", err |-> "none",
         entity |-> SabEntity(rec[1].value, PyInt(-1), PyInt(-1), <<>>)]
    ELSE IF Len(rec) < (IF has_id(version) THEN 3 ELSE 2)
    THEN [outcome |-> "raise", err |-> "IndexError"]
    ELSE [outcome |-> "entity", err |-> "none",
          entity |-> SabEntity(rec[1].value, rec[2].value,
                               IF has_id(version) THEN rec[3].value ELSE PyInt(-1),
                               SubSeq(rec, IF has_id(version) THEN 4 ELSE 3, Len(rec)))]

\* the body of the loop of build_entities for one record
build_entity(rec, version) ==
    IF Len(rec) < 1 THEN [outcome |-> "raise", err |-> "IndexError"]
    ELSE IF IsEndMarker(rec[1].value) THEN
        [outcome |-> "end", err |-> "none",
         entity |-> SabEntity(rec[1].value, PyInt(-1), PyInt(-1), <<>>)]
    ELSE IF Len(rec) < 2 THEN [outcome |-> "raise", err |-> "IndexError"]
    ELSE IF has_id(version) THEN
        IF Len(rec) < 3 THEN [outcome |-> "raise", err |-> "IndexError"]
        ELSE [outcome |-> "entity", err |-> "none",
              entity |-> SabEntity(rec[1].value, rec[2].value, rec[3].value,
                                   SubSeq(rec, 4, Len(rec)))]
    ELSE [outcome |-> "entity", err |-> "none",
          entity |-> SabEntity(rec[1].value, rec[2].value, PyInt(-1),
                               SubSeq(rec, 3, Len(rec)))]

-----------------------------------------------------------------------------
(* resolve_pointers *)

\* -1.0 as a little-endian IEEE-754 double
MINUS_ONE_DOUBLE == <<0, 0, 0, 0, 0, 0, 240, 191>>

\* num == -1
IsMinusOne(num) ==
    \/ num.kind = "int" /\ num.v = <<-1>>
    \/ num.kind = "double" /\ num.v = MINUS_ONE_DOUBLE

\* ptr without Python's index check: the raw number is taken as the position
ptr_unchecked(n, num) ==
    IF IsMinusOne(num) THEN [err |-> "none", val |-> NullRef]
    ELSE IF num.kind \in {"int", "bool"} THEN [err |-> "none", val |-> Ref(num.v[1])]
    ELSE [err |-> "TypeError", val |-> PyNone]

\* ptr without the special case for -1: entities[-1] is the last entity
ptr_no_null(n, num) ==
    IF num.kind \in {"int", "bool"} THEN
        IF PyIndexOk(n, num.v[1])
        THEN [err |-> "none", val |-> Ref(PyNorm(n, num.v[1]))]
        ELSE [err |-> "IndexError", val |-> PyNone]
    ELSE [err |-> "TypeError", val |-> PyNone]

\* ptr taking the raw number as a 1-based position
ptr_one_based(n, num) ==
    IF IsMinusOne(num) THEN [err |-> "none", val |-> NullRef]
    ELSE IF num.kind \in {"int", "bool"} THEN
        IF PyIndexOk(n, num.v[1] - 1)
        THEN [err |-> "none", val |-> Ref(PyNorm(n, num.v[1] - 1))]
        ELSE [err |-> "IndexError", val |-> PyNone]
    ELSE [err |-> "TypeError", val |-> PyNone]

\* ptr(num) for a list of n entities: NULL_PTR for -1, else entities[num]
ptr(n, num) ==
    IF IsMinusOne(num) THEN [err |-> "none", val |-> NullRef]
    ELSE IF num.kind \in {"int", "bool"} THEN
        IF PyIndexOk(n, num.v[1])
        THEN [err |-> "none", val |-> Ref(PyNorm(n, num.v[1]))]
        ELSE [err |-> "IndexError", val |-> PyNone]
    ELSE [err |-> "TypeError", val |-> PyNone]

\* the loop over entity.data, from token j on; stops at the first error
RECURSIVE resolve_tokens(_, _, _)
resolve_tokens(dat, j, n) ==
    IF j > Len(dat) THEN [err |-> "none", data |-> dat]
    ELSE IF dat[j].tag = POINTER THEN
        LET r == ptr(n, dat[j].value)
        IN  IF r.err # "none" THEN [err |-> r.err, data |-> dat]
            ELSE resolve_tokens([dat EXCEPT ![j] = Token(dat[j].tag, r.val)], j + 1, n)
    ELSE resolve_tokens(dat, j + 1, n)

\* the raw attribute index is left in attr_ptr
resolve_entity_keeps_attr_ptr(e, n) ==
    LET a == ptr(n, e.attr_ptr)
    IN  IF a.err # "none" THEN [err |-> a.err, entity |-> e]
        ELSE LET t == resolve_tokens(e.data, 1, n)
             IN  [err |-> t.err,
                  entity |-> [e EXCEPT !.attributes = a.val, !.data = t.data]]

\* the body of the loop over the entities, for one entity
resolve_entity(e, n) ==
    LET a == ptr(n, e.attr_ptr)
    IN  IF a.err # "none" THEN [err |-> a.err, entity |-> e]
        ELSE LET t == resolve_tokens(e.data, 1, n)
             IN  [err |-> t.err,
                  entity |-> [e EXCEPT !.attributes = a.val,
                                       !.attr_ptr = PyInt(-1),
                                       !.data = t.data]]

\* the loop over the entities from position k on; the list is changed in
\* place, so what was done before an error stays done
RECURSIVE resolve_from(_, _)
resolve_from(ents, k) ==
    IF k > Len(ents) THEN [err |-> "none", entities |-> ents]
    ELSE LET r == resolve_entity(ents[k], Len(ents))
             next == [ents EXCEPT ![k] = r.entity]
         IN  IF r.err # "none" THEN [err |-> r.err, entities |-> next]
             ELSE resolve_from(next, k + 1)

resolve_pointers(ents) == resolve_from(ents, 1)

\* SabBuilder.set_entities: the positions of the entities named "body"
BODY == <<98, 111, 100, 121>>
IsBody(e) == e.name.kind = "str" /\ e.name.v = BODY
\* every entity taken as a body, whatever its name
RECURSIVE body_positions_all(_, _)
body_positions_all(ents, k) ==
    IF k > Len(ents) THEN <<>> ELSE <<k - 1>> \o body_positions_all(ents, k + 1)

RECURSIVE body_positions(_, _)
body_positions(ents, k) ==
    IF k > Len(ents) THEN <<>>
    ELSE (IF IsBody(ents[k]) THEN <<k - 1>> ELSE <<>>) \o body_positions(ents, k + 1)

-----------------------------------------------------------------------------
(* SabDataLoader *)

\* SabDataLoader(data, version): the cursor starts at the first token; op,
\* ret and err record the last method called, what it returned and the
\* exception it raised
SabDataLoader(dat, version) ==
    [data |-> dat, index |-> 0, version |-> version,
     op |-> "none", ret |-> PyNone, err |-> "none"]

\* no loader has been made
NoLoader == SabDataLoader(<<>>, 0)

\* float("inf") as a little-endian IEEE-754 double
INF_DOUBLE == <<0, 0, 0, 0, 0, 0, 240, 127>>

\* the cursor moves on even when the token is of another kind
expect_token_advancing(ld, tags) ==
    IF ~PyIndexOk(Len(ld.data), ld.index)
    THEN [err |-> "IndexError", val |-> PyNone, index |-> ld.index]
    ELSE LET token == PyAt(ld.data, ld.index)
         IN  IF token.tag \in tags
             THEN [err |-> "none", val |-> token.value, index |-> ld.index + 1]
             ELSE [err |-> "ParsingError", val |-> PyNone, index |-> ld.index + 1]

\* token = self.data[self.index]; a token whose tag is one of `tags` is
\* consumed and its value returned, any other raises ParsingError
expect_token(ld, tags) ==
    IF ~PyIndexOk(Len(ld.data), ld.index)
    THEN [err |-> "IndexError", val |-> PyNone, index |-> ld.index]
    ELSE LET token == PyAt(ld.data, ld.index)
         IN  IF token.tag \in tags
             THEN [err |-> "none", val |-> token.value, index |-> ld.index + 1]
             ELSE [err |-> "ParsingError", val |-> PyNone, index |-> ld.index]

loader_read_int(ld) == expect_token(ld, {INT})
loader_read_double(ld) == expect_token(ld, {DOUBLE})
loader_read_vec3(ld) == expect_token(ld, {LOCATION_VEC, DIRECTION_VEC})
loader_read_str(ld) == expect_token(ld, {STR, LITERAL_STR})
loader_read_ptr(ld) == expect_token(ld, {POINTER})

\* read_bool returns True or False by the tag alone
loader_read_bool(ld) ==
    IF ~PyIndexOk(Len(ld.data), ld.index)
    THEN [err |-> "IndexError", val |-> PyNone, index |-> ld.index]
    ELSE LET token == PyAt(ld.data, ld.index)
         IN  IF token.tag = BOOL_TRUE
             THEN [err |-> "none", val |-> PyBool(TRUE), index |-> ld.index + 1]
             ELSE IF token.tag = BOOL_FALSE
             THEN [err |-> "none", val |-> PyBool(FALSE), index |-> ld.index + 1]
             ELSE [err |-> "ParsingError", val |-> PyNone, index |-> ld.index]

\* the double is read after a false flag, infinity returned after a true one
loader_read_interval_swapped(ld) ==
    LET finite == loader_read_bool(ld)
    IN  IF finite.err # "none" THEN finite
        ELSE IF finite.val = PyBool(FALSE)
        THEN loader_read_double([ld EXCEPT !.index = finite.index])
        ELSE [err |-> "none", val |-> V("double", INF_DOUBLE), index |-> finite.index]

\* read_interval: a flag, then the double if the flag is true
loader_read_interval(ld) ==
    LET finite == loader_read_bool(ld)
    IN  IF finite.err # "none" THEN finite
        ELSE IF finite.val = PyBool(TRUE)
        THEN loader_read_double([ld EXCEPT !.index = finite.index])
        ELSE [err |-> "none", val |-> V("double", INF_DOUBLE), index |-> finite.index]

\* SabDataLoader.has_data
loader_has_data(ld) == ld.index <= Len(ld.data)

-----------------------------------------------------------------------------
(* Input buffers *)

\* n as four little-endian bytes (two's complement), -2^31 <= n < 2^31
Bytes32(m) == <<m % 256, (m \div 256) % 256, (m \div 65536) % 256, m \div 16777216>>
EncInt32(n) ==
    IF n >= 0 THEN Bytes32(n)
    ELSE LET b == Bytes32(-(n + 1))
         IN  <<255 - b[1], 255 - b[2], 255 - b[3], 255 - b[4]>>

ONE_DOUBLE == <<0, 0, 0, 0, 0, 0, 240, 63>>

TokInt(tag, n) == <<tag>> \o EncInt32(n)
TokDouble(tag, bytes) == <<tag>> \o bytes
ShortStr(tag, text) == <<tag, Len(text)>> \o text
LongStr(n, text) == <<LITERAL_STR>> \o EncInt32(n) \o text

\* a header with the given signature and version
HeaderBytes(sig, version) ==
    sig \o EncInt32(version) \o EncInt32(2) \o EncInt32(2) \o EncInt32(0)
    \o ShortStr(STR, <<80>>) \o ShortStr(STR, <<65>>) \o ShortStr(STR, GOOD_DATE)
    \o TokDouble(DOUBLE, ONE_DOUBLE) \o TokDouble(DOUBLE, ONE_DOUBLE)
    \o TokDouble(DOUBLE, ONE_DOUBLE)

Versions == {ID_VERSION - 1, ID_VERSION}

\* "face", "a", "b", "s", "lit"
FACE == <<102, 97, 99, 101>>
TXT_A == <<97>>
TXT_B == <<98>>
TXT_S == <<115>>
TXT_LIT == <<108, 105, 116>>

\* one record: name, attribute pointer, id, payload, terminator
Rec(name, attr, id, payload) ==
    ShortStr(ENTITY_TYPE, name) \o TokInt(POINTER, attr) \o TokInt(INT, id)
    \o payload \o <<RECORD_END>>

\* the end-of-data record, without a terminator: End-of-ACIS-data or End-of-ASM-data
EndRecord(flavor) ==
    ShortStr(ENTITY_TYPE_EX, <<69, 110, 100>>) \o ShortStr(ENTITY_TYPE_EX, <<111, 102>>)
    \o ShortStr(ENTITY_TYPE_EX, flavor) \o ShortStr(ENTITY_TYPE, <<100, 97, 116, 97>>)
ACIS == <<65, 67, 73, 83>>
ASM == <<65, 83, 77>>

PtrVals == (-(MaxPtr + 1))..MaxPtr

\* two records and the end marker: three entities whose pointers are raw
\* values of PtrVals (null, forward, backward, negative, out of range)
PtrStreams ==
    { Rec(BODY, a1, 3, TokInt(POINTER, p1)) \o Rec(FACE, a2, 5, TokInt(INT, 7))
      \o EndRecord(ACIS) : a1 \in PtrVals, p1 \in PtrVals, a2 \in PtrVals }

\* records whose second token is not a pointer token
OddAttrs ==
    { <<BOOL_TRUE>>, <<BOOL_FALSE>>, TokDouble(DOUBLE, MINUS_ONE_DOUBLE),
      TokDouble(DOUBLE, ONE_DOUBLE), ShortStr(STR, TXT_S), TokInt(INT, 0),
      TokInt(ENUM, -1), <<RECORD_END>>, <<>> }
OddStreams ==
    { ShortStr(ENTITY_TYPE, BODY) \o a \o TokInt(INT, 3) \o <<RECORD_END>>
      \o Rec(FACE, 0, 5, <<>>) \o EndRecord(ASM) \o <<RECORD_END>> : a \in OddAttrs }

\* a record with one token of every kind, then the end marker
AllKinds ==
    ShortStr(ENTITY_TYPE_EX, TXT_A) \o ShortStr(ENTITY_TYPE, TXT_B)
    \o TokInt(POINTER, 1) \o TokInt(INT, 1) \o TokDouble(DOUBLE, ONE_DOUBLE)
    \o ShortStr(STR, TXT_S) \o <<BOOL_TRUE, BOOL_FALSE>> \o LongStr(3, TXT_LIT)
    \o TokDouble(LOCATION_VEC, ONE_DOUBLE \o ONE_DOUBLE \o ONE_DOUBLE)
    \o TokDouble(DIRECTION_VEC, ONE_DOUBLE \o ONE_DOUBLE \o ONE_DOUBLE)
    \o TokInt(ENUM, 2) \o TokDouble(UNKNOWN_0x17, ONE_DOUBLE)
    \o <<SUBTYPE_START, SUBTYPE_START, SUBTYPE_END, SUBTYPE_END, RECORD_END>>
    \o EndRecord(ACIS) \o TokInt(INT, 9)

BaseStreams ==
    { AllKinds,
      Rec(BODY, -1, 3, <<>>) \o EndRecord(ACIS) \o <<RECORD_END>>,
      EndRecord(ASM) }

\* 22 and 255: bytes that read_record does not know as tags
BadBytes == {22, 255}

Prefixes(stream) == { SubSeq(stream, 1, n) : n \in 0..Len(stream) }
Substitutions(stream) ==
    { [stream EXCEPT ![i] = b] : i \in 1..Len(stream), b \in BadBytes }

\* buffers that end anywhere, and buffers with one byte replaced
MutatedStreams ==
    UNION { Prefixes(st) \cup Substitutions(st) : st \in BaseStreams }

\* long strings whose 4-byte length is negative, zero, right or too large
LitLens == {-1000, -200, -15, -10, -6, -5, -1, 0, 3, 100}
LitStreams ==
    { Rec(BODY, -1, 3, LongStr(n, TXT_LIT)) \o EndRecord(ACIS) : n \in LitLens }

\* two bodies with a face between them, then an end-of-data record that is
\* followed by more tokens and more records, or by a string of which the
\* buffer holds one byte of the five announced
Trailers ==
    { <<RECORD_END>> \o Rec(BODY, -1, 9, <<>>),
      <<STR, 5>> \o TXT_A,
      TokInt(POINTER, 1) \o <<RECORD_END>> \o Rec(FACE, 0, 9, <<>>) \o EndRecord(ACIS) }
TrailingStreams ==
    { Rec(BODY, -1, 3, <<>>) \o Rec(FACE, 0, 5, <<>>) \o Rec(BODY, 1, 7, <<>>)
      \o EndRecord(flavor) \o t : flavor \in {ACIS, ASM}, t \in Trailers }

\* a name whose fragments have a token between them and a second name in the
\* same record; a fragment left over at the end of a record
NameStreams ==
    { ShortStr(ENTITY_TYPE_EX, TXT_A) \o TokInt(INT, 1) \o ShortStr(ENTITY_TYPE, TXT_B)
      \o TokInt(POINTER, -1) \o TokInt(INT, 3) \o ShortStr(ENTITY_TYPE_EX, TXT_S)
      \o ShortStr(ENTITY_TYPE, FACE) \o <<RECORD_END>> \o EndRecord(ACIS),
      Rec(BODY, -1, 3, ShortStr(ENTITY_TYPE_EX, TXT_A)) \o Rec(TXT_B, -1, 5, <<>>)
      \o EndRecord(ASM) }

\* subtype brackets: balanced, nested, and not balanced; the record after
\* them has a pair of its own
BracketPayloads ==
    { <<SUBTYPE_END>>,
      <<SUBTYPE_START, SUBTYPE_START, SUBTYPE_END>>,
      <<SUBTYPE_START, SUBTYPE_END, SUBTYPE_END, SUBTYPE_START>>,
      <<SUBTYPE_START, SUBTYPE_END, SUBTYPE_START, SUBTYPE_END>>,
      <<SUBTYPE_START>> \o TokInt(INT, 1) \o <<SUBTYPE_START, SUBTYPE_END>>
          \o <<SUBTYPE_START, SUBTYPE_START, SUBTYPE_END, SUBTYPE_END, SUBTYPE_END>> }
BracketStreams ==
    { Rec(BODY, -1, 3, p) \o Rec(FACE, 0, 5, <<SUBTYPE_START, SUBTYPE_END>>)
      \o EndRecord(ACIS) : p \in BracketPayloads }

Streams ==
    PtrStreams \cup OddStreams \cup MutatedStreams \cup LitStreams \cup TrailingStreams
    \cup NameStreams \cup BracketStreams

Buffers ==
    { HeaderBytes(ACIS_SIGNATURE, v) \o st : v \in Versions, st \in Streams }

-----------------------------------------------------------------------------
(* Header buffers *)

\* the header encoded from field values: four int32, three tagged short
\* strings (the third is the date), three tagged doubles
EncodeHeader(sig, f) ==
    sig \o EncInt32(f.version) \o EncInt32(f.n_records) \o EncInt32(f.n_entities)
    \o EncInt32(f.flags)
    \o ShortStr(STR, f.product_id) \o ShortStr(STR, f.acis_version)
    \o ShortStr(STR, GOOD_DATE)
    \o TokDouble(DOUBLE, f.units_in_mm) \o TokDouble(DOUBLE, f.res_tol)
    \o TokDouble(DOUBLE, f.nor_tol)

\* a text of 255 bytes, the longest a length byte can announce
LONGEST_TEXT == [i \in 1..255 |-> 120]

\* bit patterns of doubles other than 1.0 and -1.0
DOUBLE_A == <<1, 2, 3, 4, 5, 6, 7, 8>>
DOUBLE_B == <<8, 7, 6, 5, 4, 3, 2, 1>>

HeaderFields ==
    [version : {-1, ID_VERSION - 1, ID_VERSION, 2147483647},
     n_records : {0, 2},
     n_entities : {1, 3},
     flags : {-2147483647 - 1, 5},
     product_id : {<<>>, <<80>>, LONGEST_TEXT},
     acis_version : {<<>>, <<65, 66>>},
     units_in_mm : {ONE_DOUBLE, DOUBLE_A},
     res_tol : {MINUS_ONE_DOUBLE},
     nor_tol : {DOUBLE_B}]

\* what follows the header: nothing, or a record without a token
HeaderTails == {<<>>, <<RECORD_END>>}

WellFormedHeaders ==
    { EncodeHeader(sig, f) \o t :
        sig \in {ACIS_SIGNATURE, ASM_SIGNATURE}, f \in HeaderFields, t \in HeaderTails }

\* the header every malformed header is made from
BaseHeader == HeaderBytes(ACIS_SIGNATURE, ID_VERSION)

\* bytes put in the place of a header byte: no tag, the two tags the header
\* checks for, and a byte that is no UTF-8
HeaderBadBytes == {0, STR, DOUBLE, 255}

\* headers cut anywhere, headers with one byte replaced, and headers with a
\* byte of the date and a later byte replaced
MalformedHeaders ==
    Prefixes(BaseHeader)
    \cup { [BaseHeader EXCEPT ![i] = b] : i \in 1..Len(BaseHeader), b \in HeaderBadBytes }
    \cup { [BaseHeader EXCEPT ![40] = 90, ![i] = b] :
             i \in 41..Len(BaseHeader), b \in HeaderBadBytes }

HeaderBuffers == WellFormedHeaders \cup MalformedHeaders

-----------------------------------------------------------------------------
(* parse_sab, step by step *)

Init ==
    /\ data \in Buffers
    /\ index = 0
    /\ pc = "read_header"
    /\ err = "none"
    /\ header = NoHeader
    /\ values = <<>>
    /\ entity_type = <<>>
    /\ subtype_level = 0
    /\ entities = <<>>
    /\ builder_set = FALSE
    /\ bodies = <<>>
    /\ null_ptr = NULL_PTR
    /\ ended_by = "none"
    /\ calls = 0
    /\ before = <<>>
    /\ loader = NoLoader

\* builder.header = decoder.read_header()
ReadHeader ==
    /\ pc = "read_header"
    /\ LET r == read_header(data)
       IN  /\ index' = r.index
           /\ header' = r.header
           /\ err' = r.err
           /\ pc' = IF r.err = "none" THEN "read_records" ELSE "error"
    /\ UNCHANGED <<loader, data, values, entity_type, subtype_level, entities,
                   builder_set, bodies, null_ptr, ended_by, calls, before>>

\* read_records: build_entities asks for the next record
ReadRecords ==
    /\ pc = "read_records"
    /\ pc' = IF has_data(data, index) THEN "read_record" ELSE "resolve"
    /\ values' = <<>>
    /\ entity_type' = <<>>
    /\ subtype_level' = 0
    /\ UNCHANGED <<loader, data, index, err, header, entities, builder_set, bodies,
                   null_ptr, ended_by, calls, before>>

\* read_record: one tag and its value; read_records swallows an IndexError
\* and ends the stream, every other exception leaves parse_sab
ReadRecord ==
    /\ pc = "read_record"
    /\ \E r \in {read_record_step(data, index, values, entity_type, subtype_level)} :
           /\ index' = r.index
           /\ values' = r.values
           /\ entity_type' = r.entity_type
           /\ subtype_level' = r.subtype_level
           /\ pc' = IF r.outcome = "continue" THEN "read_record"
                    ELSE IF r.outcome \in {"terminator", "exhausted"} THEN "build_entities"
                    ELSE IF r.err = "IndexError" THEN "resolve"
                    ELSE "error"
           /\ err' = IF r.outcome = "raise" /\ r.err # "IndexError" THEN r.err ELSE err
           /\ ended_by' = IF r.outcome \in {"terminator", "exhausted"} THEN r.outcome
                          ELSE ended_by
    /\ UNCHANGED <<loader, data, header, entities, builder_set, bodies, null_ptr,
                   calls, before>>

\* build_entities: the record just read becomes an entity
BuildEntities ==
    /\ pc = "build_entities"
    /\ LET r == build_entity(values, header.version)
       IN  /\ entities' = IF r.outcome = "raise" THEN entities
                          ELSE Append(entities, r.entity)
           /\ err' = r.err
           /\ pc' = IF r.outcome = "raise" THEN "error"
                    ELSE IF r.outcome = "end" THEN "resolve"
                    ELSE "read_records"
    /\ UNCHANGED <<loader, data, index, header, values, entity_type, subtype_level,
                   builder_set, bodies, null_ptr, ended_by, calls, before>>

\* parse_sab hands the list to set_entities as build_entities left it
ResolvePointers_skipped ==
    /\ pc = "resolve"
    /\ pc' = "set_entities"
    /\ UNCHANGED <<loader, data, index, err, header, values, entity_type,
                   subtype_level, entities, builder_set, bodies, null_ptr,
                   ended_by, calls, before>>

\* resolve_pointers(entities), called by parse_sab
ResolvePointers ==
    /\ pc = "resolve"
    /\ LET r == resolve_pointers(entities)
       IN  /\ entities' = r.entities
           /\ err' = r.err
           /\ pc' = IF r.err = "none" THEN "set_entities" ELSE "error"
    /\ before' = entities
    /\ calls' = calls + 1
    /\ UNCHANGED <<loader, data, index, header, values, entity_type, subtype_level,
                   builder_set, bodies, null_ptr, ended_by>>

\* builder.set_entities(...); return builder
SetEntities ==
    /\ pc = "set_entities"
    /\ bodies' = body_positions(entities, 1)
    /\ builder_set' = TRUE
    /\ pc' = "done"
    /\ UNCHANGED <<loader, data, index, err, header, values, entity_type, subtype_level,
                   entities, null_ptr, ended_by, calls, before>>

\* a caller of parse_sab runs resolve_pointers(builder.entities) once more
ResolveAgain ==
    /\ pc = "done"
    /\ calls < MaxResolveCalls
    /\ LET r == resolve_pointers(entities)
       IN  /\ entities' = r.entities
           /\ err' = r.err
    /\ before' = entities
    /\ calls' = calls + 1
    /\ UNCHANGED <<loader, data, index, pc, header, values, entity_type, subtype_level,
                   builder_set, bodies, null_ptr, ended_by>>

Next ==
    \/ ReadHeader
    \/ ReadRecords
    \/ ReadRecord
    \/ BuildEntities
    \/ ResolvePointers
    \/ SetEntities
    \/ ResolveAgain

Spec == Init /\ [][Next]_vars

\* parse_sab from the point where read_header has returned, on the buffers
\* that hold a long string; read_record runs without interruption, so a pass
\* of its loop that can be taken is taken
LitBuffers ==
    { HeaderBytes(sig, v) \o st :
        sig \in {ACIS_SIGNATURE, ASM_SIGNATURE}, v \in Versions, st \in LitStreams }
InitAfterHeader ==
    /\ data \in LitBuffers
    /\ index = read_header(data).index
    /\ pc = "read_records"
    /\ err = "none"
    /\ header = read_header(data).header
    /\ values = <<>>
    /\ entity_type = <<>>
    /\ subtype_level = 0
    /\ entities = <<>>
    /\ builder_set = FALSE
    /\ bodies = <<>>
    /\ null_ptr = NULL_PTR
    /\ ended_by = "none"
    /\ calls = 0
    /\ before = <<>>
    /\ loader = NoLoader
NextAfterHeader ==
    \/ ReadRecords
    \/ ReadRecord
    \/ BuildEntities
    \/ ResolvePointers
    \/ SetEntities
    \/ ResolveAgain
FairSpec == InitAfterHeader /\ [][NextAfterHeader]_vars /\ WF_vars(ReadRecord)

\* parse_sab on the header buffers
InitHeader ==
    /\ data \in HeaderBuffers
    /\ index = 0
    /\ pc = "read_header"
    /\ err = "none"
    /\ header = NoHeader
    /\ values = <<>>
    /\ entity_type = <<>>
    /\ subtype_level = 0
    /\ entities = <<>>
    /\ builder_set = FALSE
    /\ bodies = <<>>
    /\ null_ptr = NULL_PTR
    /\ ended_by = "none"
    /\ calls = 0
    /\ before = <<>>
    /\ loader = NoLoader
HeaderSpec == InitHeader /\ [][Next]_vars

-----------------------------------------------------------------------------
(* A caller reads the payload of an entity through a SabDataLoader *)

\* one token of every kind read_record makes, POINTER tokens as
\* resolve_pointers leaves them
VEC_ONES == ONE_DOUBLE \o ONE_DOUBLE \o ONE_DOUBLE
LoaderTokens ==
    { Token(INT, PyInt(7)), Token(DOUBLE, V("double", DOUBLE_A)),
      Token(STR, PyStr(TXT_S)), Token(LITERAL_STR, PyStr(TXT_LIT)),
      Token(BOOL_TRUE, PyBool(TRUE)), Token(BOOL_FALSE, PyBool(FALSE)),
      Token(POINTER, Ref(0)), Token(POINTER, NullRef),
      Token(LOCATION_VEC, V("vec", VEC_ONES)), Token(DIRECTION_VEC, V("vec", VEC_ONES)),
      Token(ENUM, PyInt(2)), Token(UNKNOWN_0x17, V("double", ONE_DOUBLE)),
      Token(SUBTYPE_START, PyInt(1)), Token(SUBTYPE_END, PyInt(1)),
      Token(ENTITY_TYPE, PyStr(FACE)) }

\* the payloads: every sequence of at most MaxPayload tokens
Payloads == UNION { [1..n -> LoaderTokens] : n \in 0..MaxPayload }

InitLoader ==
    /\ data = <<>>
    /\ index = 0
    /\ pc = "loader"
    /\ err = "none"
    /\ header = NoHeader
    /\ values = <<>>
    /\ entity_type = <<>>
    /\ subtype_level = 0
    /\ entities = <<>>
    /\ builder_set = FALSE
    /\ bodies = <<>>
    /\ null_ptr = NULL_PTR
    /\ ended_by = "none"
    /\ calls = 0
    /\ before = <<>>
    /\ \E dat \in Payloads, v \in Versions : loader = SabDataLoader(dat, v)

\* the call of one method: the cursor moves as the method left it, also when
\* it raised
LoaderCall(op, r) ==
    /\ pc = "loader"
    /\ loader' = [loader EXCEPT !.index = r.index, !.op = op, !.ret = r.val,
                                !.err = r.err]
    /\ UNCHANGED <<data, index, pc, err, header, values, entity_type, subtype_level,
                   entities, builder_set, bodies, null_ptr, ended_by, calls, before>>

LoaderReadInt == LoaderCall("read_int", loader_read_int(loader))
LoaderReadDouble == LoaderCall("read_double", loader_read_double(loader))
LoaderReadInterval == LoaderCall("read_interval", loader_read_interval(loader))
LoaderReadVec3 == LoaderCall("read_vec3", loader_read_vec3(loader))
LoaderReadBool == LoaderCall("read_bool", loader_read_bool(loader))
LoaderReadStr == LoaderCall("read_str", loader_read_str(loader))
LoaderReadPtr == LoaderCall("read_ptr", loader_read_ptr(loader))
LoaderHasData ==
    LoaderCall("has_data",
               [err |-> "none", val |-> PyBool(loader_has_data(loader)),
                index |-> loader.index])

LoaderNext ==
    \/ LoaderReadInt
    \/ LoaderReadDouble
    \/ LoaderReadInterval
    \/ LoaderReadVec3
    \/ LoaderReadBool
    \/ LoaderReadStr
    \/ LoaderReadPtr
    \/ LoaderHasData

LoaderSpec == InitLoader /\ [][LoaderNext]_vars

-----------------------------------------------------------------------------
(* Properties of pointer resolution *)

\* the first resolve_pointers call on the list has returned
FirstResolveDone == calls = 1 /\ pc \in {"set_entities", "done"}

\* a reference to NULL_PTR or to an entity of a list of n entities
IsReference(value, n) ==
    \/ value = NullRef
    \/ value.kind = "ref" /\ value.v[1] \in 0..(n - 1)

PointerTokens(e) == {j \in 1..Len(e.data) : e.data[j].tag = POINTER}

Resolved(ents) ==
    \A i \in 1..Len(ents) :
        /\ IsReference(ents[i].attributes, Len(ents))
        /\ \A j \in PointerTokens(ents[i]) :
               IsReference(ents[i].data[j].value, Len(ents))

\* C1: after a successful resolve_pointers on a freshly built entity list,
\* the attributes slot of every entity and the value of every POINTER token
\* is NULL_PTR or an entity of that list, never a raw integer
C1_IndexValidity == FirstResolveDone => Resolved(entities)

C1_Witness ==
    /\ FirstResolveDone
    /\ \E i \in 1..Len(entities) :
           /\ entities[i].attributes.kind = "ref"
           /\ \E j \in PointerTokens(entities[i]) :
                  entities[i].data[j].value.kind = "ref"

\* the raw integers a list holds in attribute slots and POINTER tokens
RawIndices(ents) ==
    {ents[i].attr_ptr.v[1] : i \in {k \in 1..Len(ents) : ents[k].attr_ptr.kind = "int"}}
    \cup UNION {
        {ents[i].data[j].value.v[1] :
            j \in {k \in PointerTokens(ents[i]) : ents[i].data[k].value.kind = "int"}}
        : i \in 1..Len(ents)}

IsDangling(k, n) == k # -1 /\ (k < 0 \/ k >= n)

\* C2: resolve_pointers fails, and returns no resolved graph, for every raw
\* index k other than -1 with k < 0 or k >= len(entities)
C2_DanglingFails ==
    (calls = 1 /\ \E k \in RawIndices(before) : IsDangling(k, Len(before)))
        => (pc = "error" /\ err = "IndexError")

\* C5: a second resolve_pointers call on a resolved list leaves every entity
\* as the first call left it, whether the second call returns or fails
C5_SecondCallChangesNothing == calls = 2 => entities = before

\* C7: every raw -1 of an attribute slot or POINTER token resolves to the one
\* NULL_PTR object, and NULL_PTR itself is never changed
C7_NullShared ==
    /\ null_ptr = NULL_PTR
    /\ FirstResolveDone =>
         \A i \in 1..Len(entities) :
            /\ before[i].attr_ptr = PyInt(-1) => entities[i].attributes = NullRef
            /\ \A j \in PointerTokens(before[i]) :
                   before[i].data[j].value = PyInt(-1)
                       => entities[i].data[j].value = NullRef

\* two entities and a POINTER token all resolved from a raw -1
C7_Witness ==
    /\ FirstResolveDone
    /\ \E i, k \in 1..Len(entities) :
           /\ i # k
           /\ before[i].attr_ptr = PyInt(-1) /\ entities[i].attributes = NullRef
           /\ before[k].attr_ptr = PyInt(-1) /\ entities[k].attributes = NullRef
           /\ \E j \in PointerTokens(before[i]) :
                  /\ before[i].data[j].value = PyInt(-1)
                  /\ entities[i].data[j].value = NullRef

InRange(value, n) == value.kind = "int" /\ value.v[1] \in 0..(n - 1)

\* C8: a raw value j with 0 <= j < len(entities), in the attribute slot or a
\* POINTER token of the entity at position i, resolves to the entity at
\* position j, for j < i and for j > i alike
C8_ForwardBackward ==
    FirstResolveDone =>
        \A i \in 1..Len(entities) :
            /\ InRange(before[i].attr_ptr, Len(before))
                   => entities[i].attributes = Ref(before[i].attr_ptr.v[1])
            /\ \A j \in PointerTokens(before[i]) :
                   InRange(before[i].data[j].value, Len(before))
                       => entities[i].data[j].value = Ref(before[i].data[j].value.v[1])

\* a forward reference in a POINTER token and a backward one in an attribute slot
C8_Witness ==
    /\ FirstResolveDone
    /\ \E i \in 1..Len(entities) : \E j \in PointerTokens(before[i]) :
           /\ InRange(before[i].data[j].value, Len(before))
           /\ before[i].data[j].value.v[1] > i - 1
           /\ entities[i].data[j].value = Ref(before[i].data[j].value.v[1])
    /\ \E i \in 1..Len(entities) :
           /\ InRange(before[i].attr_ptr, Len(before))
           /\ before[i].attr_ptr.v[1] < i - 1
           /\ entities[i].attributes = Ref(before[i].attr_ptr.v[1])

-----------------------------------------------------------------------------
(* Properties of the record reader *)

KnownTags ==
    {INT, DOUBLE, STR, POINTER, BOOL_TRUE, BOOL_FALSE, LITERAL_STR,
     ENTITY_TYPE_EX, ENTITY_TYPE, LOCATION_VEC, DIRECTION_VEC, ENUM,
     UNKNOWN_0x17, SUBTYPE_START, SUBTYPE_END, RECORD_END}

FirstIsEndMarker(vals) == vals # <<>> /\ IsEndMarker(vals[1].value)

\* the next pass of read_record asks for a byte at or after the end of the buffer
HitsEnd ==
    \/ ~has_data(data, index)
    \/ read_record_step(data, index, values, entity_type, subtype_level).index > Len(data)

\* C3: when the buffer ends inside a record whose first token is no
\* end-of-data marker (after a tag byte, inside a length field, a fixed-width
\* value or the bytes of a string), parse_sab fails: the pass that meets the
\* end raises, or the text it read is cut short and the next pass raises
C3_TruncationFails ==
    [][(pc = "read_record" /\ index >= 0 /\ HitsEnd /\ ~FirstIsEndMarker(values))
          => (pc' = "error" \/ (pc' = "read_record" /\ index' > Len(data)))]_vars

\* C4: a tag byte outside the known set, at any position of a record, the
\* first included, makes parse_sab fail with the unknown-tag ParsingError
C4_UnknownTagFails ==
    [][(/\ pc = "read_record"
        /\ has_data(data, index)
        /\ PyIndexOk(Len(data), index)
        /\ PyAt(data, index) \notin KnownTags)
          => (pc' = "error" /\ err' = "ParsingError")]_vars

\* C6: the loop of read_record never runs forever: every read_record call
\* ends, by returning its record or by raising, so that parse_sab, whose
\* other loops run over finite lists, returns or raises for every buffer
C6_ReadRecordEnds == (pc = "read_record") ~> (pc # "read_record")

\* C9: the entity built from a record has the first token's value as name
\* and the second's as attribute pointer; from version 700 on the third
\* token is the id and the payload starts at the fourth, below 700 the id is
\* -1 and the payload starts at the third
C9_VersionBranch ==
    (pc = "read_records" /\ entities # <<>>) =>
        LET e == entities[Len(entities)]
        IN  /\ Len(values) >= 2
            /\ e.name = values[1].value
            /\ e.attr_ptr = values[2].value
            /\ IF header.version >= ID_VERSION
               THEN /\ Len(values) >= 3
                    /\ e.id = values[3].value
                    /\ e.data = SubSeq(values, 4, Len(values))
               ELSE /\ e.id = PyInt(-1)
                    /\ e.data = SubSeq(values, 3, Len(values))

\* a record of version 700 with an id other than -1 and a payload
C9_Witness ==
    /\ pc = "read_records"
    /\ entities # <<>>
    /\ header.version = ID_VERSION
    /\ Len(values) > 3
    /\ entities[Len(entities)].id = values[3].value
    /\ entities[Len(entities)].id # PyInt(-1)
    /\ entities[Len(entities)].data = SubSeq(values, 4, Len(values))

-----------------------------------------------------------------------------
(* Properties of parse_sab as a whole *)

\* C11: parse_sab returns a SabBuilder whose graph is fully resolved or fails
\* with ParsingError; no malformed buffer makes it fail with another kind of
\* exception
C11_OnlyParsingError ==
    /\ (pc = "error" => err = "ParsingError")
    /\ (pc = "done" /\ calls = 1 => builder_set /\ Resolved(entities))

\* the concrete scenario: version 700, one record (body, attribute pointer -1,
\* id 3, no payload), then the End-of-ACIS-data record
BodyScenario ==
    HeaderBytes(ACIS_SIGNATURE, ID_VERSION) \o Rec(BODY, -1, 3, <<>>) \o EndRecord(ACIS)

\* C12: once set_entities has run, bodies is the subsequence of the entities
\* named "body", in the order of the entity list; the concrete scenario yields
\* exactly one body, whose attributes is NULL_PTR and whose id is 3
C12_Bodies ==
    builder_set =>
        /\ \A k \in 1..(Len(bodies) - 1) : bodies[k] < bodies[k + 1]
        /\ {bodies[k] : k \in 1..Len(bodies)}
               = {i - 1 : i \in {j \in 1..Len(entities) : entities[j].name = PyStr(BODY)}}
        /\ data = BodyScenario =>
               /\ Len(bodies) = 1
               /\ entities[bodies[1] + 1].name = PyStr(BODY)
               /\ entities[bodies[1] + 1].attributes = NullRef
               /\ entities[bodies[1] + 1].id = PyInt(3)

\* parse_sab has returned the builder of the concrete scenario
C12_Witness ==
    /\ pc = "done"
    /\ calls = 1
    /\ data = BodyScenario
    /\ Len(entities) = 2
    /\ bodies = <<0>>

-----------------------------------------------------------------------------
(* Properties of read_header *)

HasSignature(d) == StartsWith(d, ACIS_SIGNATURE) \/ StartsWith(d, ASM_SIGNATURE)

\* the length of the signature the buffer starts with, ACIS looked for first
SignatureLen(d) ==
    IF StartsWith(d, ACIS_SIGNATURE) THEN Len(ACIS_SIGNATURE) ELSE Len(ASM_SIGNATURE)

\* C13: on a buffer that starts with neither signature read_header raises
\* ParsingError and the cursor stays at offset 0; otherwise the version field
\* is read right after the signature, so that the cursor is at least four
\* bytes past it and a returned header holds the four bytes that follow the
\* signature as its version
C13_Signature ==
    pc # "read_header" =>
        IF ~HasSignature(data)
        THEN pc = "error" /\ err = "ParsingError" /\ index = 0 /\ header = NoHeader
        ELSE /\ index >= SignatureLen(data) + 4
             /\ header # NoHeader =>
                    SubSeq(data, SignatureLen(data) + 1, SignatureLen(data) + 4)
                        = EncInt32(header.version)

\* read_header has refused a buffer whose signature has one wrong byte
C13_Witness ==
    /\ pc = "error"
    /\ err = "ParsingError"
    /\ index = 0
    /\ Len(data) = Len(BaseHeader)
    /\ ~HasSignature(data)
    /\ SubSeq(data, 1, 4) = SubSeq(ACIS_SIGNATURE, 1, 4)

\* the tag bytes the header asks for, in the order of its tagged fields:
\* product_id, acis_version, creation_date, units_in_mm, res_tol, nor_tol
HeaderTags == <<STR, STR, STR, DOUBLE, DOUBLE, DOUBLE>>

\* the offset of the tag byte of the k-th tagged field, when the fields before
\* it are laid out in the fixed order: four int32 after the signature, then
\* each string as tag, length byte and text, each double as tag and 8 bytes
RECURSIVE TagOffset(_, _)
TagOffset(d, k) ==
    IF k = 1 THEN SignatureLen(d) + 16
    ELSE IF k <= 4 THEN TagOffset(d, k - 1) + 2 + d[TagOffset(d, k - 1) + 2]
    ELSE TagOffset(d, k - 1) + 9

TagAt(d, k) == d[TagOffset(d, k) + 1]

\* the text of the k-th tagged field, a string
TextOf(d, k) ==
    SubSeq(d, TagOffset(d, k) + 3, TagOffset(d, k) + 2 + d[TagOffset(d, k) + 2])

\* the k-th tagged field lies whole in the buffer and its value can be read
FieldSound(d, k) ==
    IF k <= 3
    THEN /\ TagOffset(d, k) + 1 < Len(d)
         /\ TagOffset(d, k) + 2 + d[TagOffset(d, k) + 2] <= Len(d)
         /\ \A i \in 1..Len(TextOf(d, k)) : TextOf(d, k)[i] < 128
         /\ k = 3 => TextOf(d, k) = GOOD_DATE
    ELSE TagOffset(d, k) + 9 <= Len(d)

\* the buffer holds the tag byte of the k-th tagged field and every field
\* before it is sound and carries its tag
RECURSIVE TagReached(_, _)
TagReached(d, k) ==
    IF k = 1 THEN TagOffset(d, 1) < Len(d)
    ELSE /\ TagReached(d, k - 1)
         /\ TagAt(d, k - 1) = HeaderTags[k - 1]
         /\ FieldSound(d, k - 1)
         /\ TagOffset(d, k) < Len(d)

\* C14: read_header reads version, n_records, n_entities, flags, product_id,
\* acis_version, creation_date, units_in_mm, res_tol, nor_tol in this order;
\* the first tagged field whose tag byte is not the string tag (the three
\* strings) or the double tag (the three doubles) raises ParsingError right
\* after that byte and no header is returned; a returned header holds the
\* values found at the offsets of the fixed order
C14_FieldOrder ==
    (pc # "read_header" /\ HasSignature(data)) =>
        /\ \A k \in 1..6 :
               (TagReached(data, k) /\ TagAt(data, k) # HeaderTags[k]) =>
                   /\ pc = "error"
                   /\ err = "ParsingError"
                   /\ header = NoHeader
                   /\ index = TagOffset(data, k) + 1
        /\ header # NoHeader =>
               /\ TagReached(data, 6) /\ TagAt(data, 6) = DOUBLE /\ FieldSound(data, 6)
               /\ SubSeq(data, SignatureLen(data) + 1, SignatureLen(data) + 16)
                      = EncInt32(header.version) \o EncInt32(header.n_records)
                        \o EncInt32(header.n_entities) \o EncInt32(header.flags)
               /\ header.product_id = TextOf(data, 1)
               /\ header.acis_version = TextOf(data, 2)
               /\ header.creation_date = TextOf(data, 3)
               /\ header.units_in_mm
                      = SubSeq(data, TagOffset(data, 4) + 2, TagOffset(data, 4) + 9)

\* read_header has refused a header whose res_tol has no double tag, after
\* reading the fields before it
C14_Witness ==
    /\ pc = "error"
    /\ err = "ParsingError"
    /\ HasSignature(data)
    /\ TagReached(data, 5)
    /\ TagAt(data, 5) = STR
    /\ index = TagOffset(data, 5) + 1

\* the header of every signature and every choice of field values, encoded
EncodedHeaders ==
    [sf \in {ACIS_SIGNATURE, ASM_SIGNATURE} \X HeaderFields |->
        EncodeHeader(sf[1], sf[2])]

\* C15: when the buffer starts with the header encoded from field values,
\* read_header returns a header with exactly these values of version,
\* n_records, n_entities, flags, product_id, acis_version and units_in_mm,
\* none of them taken from the two tolerance doubles, and leaves the cursor
\* on the first byte after the nor_tol double
C15_RoundTrip ==
    pc # "read_header" =>
        \A sf \in DOMAIN EncodedHeaders :
            StartsWith(data, EncodedHeaders[sf]) =>
                /\ header.version = sf[2].version
                /\ header.n_records = sf[2].n_records
                /\ header.n_entities = sf[2].n_entities
                /\ header.flags = sf[2].flags
                /\ header.product_id = sf[2].product_id
                /\ header.acis_version = sf[2].acis_version
                /\ header.units_in_mm = sf[2].units_in_mm
                /\ pc = "read_records" => index = Len(EncodedHeaders[sf])

\* read_header has returned the header of an ASM buffer with the smallest
\* int32 as flags, a product_id of 255 bytes and a record after the header
C15_Witness ==
    /\ pc = "read_records"
    /\ StartsWith(data, ASM_SIGNATURE)
    /\ header.version = ID_VERSION
    /\ header.flags < -2147483647
    /\ header.product_id = LONGEST_TEXT
    /\ header.units_in_mm = DOUBLE_A
    /\ index = Len(data) - 1

-----------------------------------------------------------------------------
(* Properties of build_entities *)

\* the positions of the entities named by an end-of-data marker
MarkerPositions(ents) == {i \in 1..Len(ents) : IsEndMarker(ents[i].name)}

\* C16: build_entities turns the first record whose first token value is an
\* end-of-data marker into one entity with attr_ptr -1, id -1 and no payload,
\* appends it and stops; from then on the entity list never grows, so that
\* entity stays the last one and no later record becomes an entity
C16_StopsAtEndMarker ==
    [][/\ (pc = "build_entities" /\ FirstIsEndMarker(values)) =>
              /\ pc' = "resolve"
              /\ entities' = Append(entities,
                                    [name |-> values[1].value, attr_ptr |-> PyInt(-1),
                                     id |-> PyInt(-1), data |-> <<>>,
                                     attributes |-> PyNone])
       /\ MarkerPositions(entities) # {} =>
              /\ Len(entities') = Len(entities)
              /\ MarkerPositions(entities') = {Len(entities)}
              /\ pc' \notin {"read_records", "read_record", "build_entities"}]_vars

\* parse_sab has returned although records follow the end-of-data record, whose
\* own tokens after the name are not kept either
C16_Witness ==
    /\ pc = "done"
    /\ Len(entities) = 4
    /\ MarkerPositions(entities) = {4}
    /\ entities[4].data = <<>>
    /\ Len(values) > 1
    /\ has_data(data, index)

-----------------------------------------------------------------------------
(* Properties of SabDataLoader *)

\* the tags each single-token accessor asks for
AccessorTags ==
    [read_int |-> {INT}, read_double |-> {DOUBLE},
     read_vec3 |-> {LOCATION_VEC, DIRECTION_VEC}, read_bool |-> {BOOL_TRUE, BOOL_FALSE},
     read_str |-> {STR, LITERAL_STR}, read_ptr |-> {POINTER}]

TokenAtCursor == loader.index < Len(loader.data)

\* C17: a call of read_int, read_double, read_vec3, read_bool, read_str or
\* read_ptr with a token at the cursor returns the token's value and moves the
\* cursor by exactly one when the tag is of the kind asked for; otherwise it
\* raises ParsingError, returns nothing and leaves the cursor where it was
C17_Accessors ==
    [][(loader'.op \in DOMAIN AccessorTags /\ TokenAtCursor) =>
          IF loader.data[loader.index + 1].tag \in AccessorTags[loader'.op]
          THEN /\ loader'.err = "none"
               /\ loader'.ret = loader.data[loader.index + 1].value
               /\ loader'.index = loader.index + 1
          ELSE /\ loader'.err = "ParsingError"
               /\ loader'.ret = PyNone
               /\ loader'.index = loader.index]_vars

\* read_vec3 has returned the second token, a direction vector
C17_Witness ==
    /\ loader.op = "read_vec3"
    /\ loader.err = "none"
    /\ loader.index = 2
    /\ loader.data[2].tag = DIRECTION_VEC
    /\ loader.ret = loader.data[2].value

\* C18: read_interval on a true flag followed by a double token returns the
\* double's value and has consumed two tokens; on a false flag it returns
\* positive infinity and has consumed the flag alone
C18_Interval ==
    [][(loader'.op = "read_interval" /\ TokenAtCursor) =>
          /\ (/\ loader.data[loader.index + 1].tag = BOOL_TRUE
              /\ loader.index + 1 < Len(loader.data)
              /\ loader.data[loader.index + 2].tag = DOUBLE) =>
                 /\ loader'.err = "none"
                 /\ loader'.ret = loader.data[loader.index + 2].value
                 /\ loader'.index = loader.index + 2
          /\ loader.data[loader.index + 1].tag = BOOL_FALSE =>
                 /\ loader'.err = "none"
                 /\ loader'.ret = V("double", INF_DOUBLE)
                 /\ loader'.index = loader.index + 1]_vars

\* read_interval has returned the double that follows a true flag
C18_Witness ==
    /\ loader.op = "read_interval"
    /\ loader.err = "none"
    /\ loader.index = 2
    /\ loader.data[1].tag = BOOL_TRUE
    /\ loader.data[2].tag = DOUBLE
    /\ loader.ret = loader.data[2].value

-----------------------------------------------------------------------------
(* Properties of the byte cursor *)

\* C19: the read offset of the Decoder never decreases, whatever the buffer
\* holds: every step of parse_sab leaves index at or above its value before
C19_OffsetNeverDecreases == [][index' >= index]_vars

\* C20: forward fails when the offset would pass the end of the buffer, so
\* the offset is never greater than len(data)
C20_OffsetWithinBuffer == index <= Len(data)

\* a record returned at the end of the buffer whose string token holds fewer
\* bytes than its length byte announced
ShortReadAccepted ==
    /\ pc = "done"
    /\ ended_by = "exhausted"
    /\ index > Len(data)
    /\ values[Len(values)] = Token(STR, PyStr(TXT_A))

-----------------------------------------------------------------------------
(* Properties of read_records *)

\* the pass of read_record's loop that is about to run
NextPass == read_record_step(data, index, values, entity_type, subtype_level)

\* that pass reads past the end of the buffer, or the pass before it did
\* (a string read), so that the cursor already lies behind the end
CursorOverrun ==
    /\ index >= 0
    /\ \/ index > Len(data)
       \/ has_data(data, index) /\ NextPass.index > Len(data)

\* C21: read_records hands out the records one per request, each starting
\* where the one before ended, and ends without raising when no byte is left
\* at a record boundary; a read that overruns the buffer while a record is
\* decoded (byte, integer, double, vector or string) ends the stream and no
\* exception reaches the caller (a text that is no UTF-8 fails to decode
\* wherever it lies, which is no matter of the overrun)
C21_OverrunEndsStream ==
    [][/\ pc \in {"read_records", "build_entities"} => index' = index
       /\ (pc = "read_records" /\ ~has_data(data, index)) => pc' = "resolve"
       /\ (pc = "read_records" /\ has_data(data, index)) => pc' = "read_record"
       /\ (pc = "read_record" /\ CursorOverrun) =>
              (pc' = "error" => err' = "UnicodeDecodeError")]_vars

-----------------------------------------------------------------------------
(* The order of the passes of parse_sab *)

\* C22: as long as resolve_pointers has not been called no entity has a
\* resolved pointer and the builder shows nothing; once it has been called no
\* record is read and no entity built any more; and the builder shows entities
\* and bodies only after resolve_pointers has returned, every pointer resolved
C22_BuildResolvePublish ==
    /\ calls = 0 =>
           /\ ~builder_set
           /\ bodies = <<>>
           /\ \A i \in 1..Len(entities) :
                  /\ entities[i].attributes = PyNone
                  /\ \A j \in PointerTokens(entities[i]) :
                         entities[i].data[j].value.kind \notin {"ref", "null"}
    /\ calls >= 1 =>
           /\ pc \in {"set_entities", "done", "error"}
           /\ Len(entities) = Len(before)
    /\ builder_set =>
           /\ calls >= 1
           /\ pc = "done"
           /\ Resolved(entities)

\* parse_sab has returned a builder whose first entity refers forward to the
\* last one, which was built after it
C22_Witness ==
    /\ builder_set
    /\ pc = "done"
    /\ calls = 1
    /\ Len(entities) = 3
    /\ entities[1].attributes = Ref(2)
    /\ \E j \in PointerTokens(entities[1]) : entities[1].data[j].value = Ref(1)

-----------------------------------------------------------------------------
(* Properties of read_record: type names and subtype brackets *)

\* the fragments in reading order, a hyphen before each but the first
RECURSIVE Hyphenated(_)
Hyphenated(parts) ==
    IF parts = <<>> THEN <<>>
    ELSE IF Len(parts) = 1 THEN parts[1]
    ELSE Hyphenated(SubSeq(parts, 1, Len(parts) - 1)) \o <<45>> \o parts[Len(parts)]

\* the byte at the cursor is a tag byte the buffer holds
TagAtCursor == index >= 0 /\ index < Len(data)

\* the text of the name fragment at the cursor: tag, length byte, text
FragmentText == SubSeq(data, index + 3, index + 2 + data[index + 2])

\* the cursor is at a name fragment that lies whole in the buffer
FragmentAtCursor ==
    /\ TagAtCursor
    /\ data[index + 1] \in {ENTITY_TYPE, ENTITY_TYPE_EX}
    /\ index + 1 < Len(data)
    /\ index + 2 + data[index + 2] <= Len(data)
    /\ \A i \in 1..Len(FragmentText) : FragmentText[i] < 128
    /\ Len(values) < MaxTokens

\* C23: the fragment buffer is empty at the start of every record; a
\* non-terminal name fragment is added to it and makes no token; a terminal
\* one makes one token, whose value is the fragments of the buffer and the
\* terminal fragment, in reading order and joined by hyphens, and empties the
\* buffer; no other tag touches the buffer
C23_TypeName ==
    [][/\ pc = "read_records" => entity_type' = <<>>
       /\ (pc = "read_record" /\ FragmentAtCursor) =>
              /\ pc' = "read_record"
              /\ IF data[index + 1] = ENTITY_TYPE_EX
                 THEN /\ values' = values
                      /\ entity_type' = Append(entity_type, FragmentText)
                 ELSE /\ values' = Append(values,
                                          Token(ENTITY_TYPE,
                                                PyStr(Hyphenated(Append(entity_type,
                                                                        FragmentText)))))
                      /\ entity_type' = <<>>
       /\ (/\ pc = "read_record" /\ pc' = "read_record"
           /\ TagAtCursor
           /\ data[index + 1] \notin {ENTITY_TYPE, ENTITY_TYPE_EX}) =>
              entity_type' = entity_type]_vars

\* the four fragments End, of, ACIS, data have made the one token
\* End-of-ACIS-data, after a record that had a name of its own
C23_Witness ==
    /\ pc = "read_record"
    /\ entities # <<>>
    /\ values = <<Token(ENTITY_TYPE, PyStr(END_OF_ACIS_DATA))>>
    /\ entity_type = <<>>

Brackets(vals) == {k \in 1..Len(vals) : vals[k].tag \in {SUBTYPE_START, SUBTYPE_END}}

\* subtype-start tokens less subtype-end tokens among the first k tokens
Depth(vals, k) ==
    Cardinality({j \in 1..k : vals[j].tag = SUBTYPE_START})
    - Cardinality({j \in 1..k : vals[j].tag = SUBTYPE_END})

\* every bracket that ends was started, and every one that started has ended
Balanced(vals) ==
    /\ \A k \in 1..Len(vals) : Depth(vals, k) >= 0
    /\ Depth(vals, Len(vals)) = 0

\* the subtype-end token at position j ends the bracket started at position i
Matching(vals, i, j) ==
    /\ i < j
    /\ vals[i].tag = SUBTYPE_START
    /\ vals[j].tag = SUBTYPE_END
    /\ Depth(vals, j) = Depth(vals, i) - 1
    /\ \A k \in (i + 1)..(j - 1) : Depth(vals, k) >= Depth(vals, i)

\* C24: the depth counter of read_record is 0 at the start of every record,
\* a subtype-start token carries the depth after the increment and a
\* subtype-end token the depth before the decrement; so in a record with
\* balanced brackets a start and the end that matches it carry the same depth,
\* every bracket token carries a depth of at least 1 and the counter is 0
\* again at the end of the record
C24_SubtypeDepth ==
    (pc \in {"read_record", "build_entities"} /\ Len(values) < MaxTokens) =>
        /\ subtype_level = Depth(values, Len(values))
        /\ \A k \in Brackets(values) :
               values[k].value =
                   PyInt(IF values[k].tag = SUBTYPE_START
                         THEN Depth(values, k) ELSE Depth(values, k - 1))
        /\ Balanced(values) =>
               /\ \A k \in Brackets(values) : values[k].value.v[1] >= 1
               /\ \A i, j \in Brackets(values) :
                      Matching(values, i, j) => values[i].value = values[j].value
               /\ pc = "build_entities" => subtype_level = 0

\* a record with balanced brackets, nested three deep, has been read
C24_Witness ==
    /\ pc = "build_entities"
    /\ Balanced(values)
    /\ subtype_level = 0
    /\ \E i, j \in Brackets(values) :
           /\ Matching(values, i, j)
           /\ values[i].value = PyInt(1)
           /\ values[j].value = PyInt(1)
           /\ \E k \in (i + 1)..(j - 1) : values[k] = Token(SUBTYPE_END, PyInt(3))

-----------------------------------------------------------------------------
(* Frame properties of SabDataLoader and resolve_pointers *)

\* C25: a SabDataLoader call that raises, read_interval included, leaves the
\* cursor where it was before the call
C25_RaisingCallKeepsCursor ==
    [][loader'.err # "none" => loader'.index = loader.index]_vars

\* C26: has_data() returns True exactly when the cursor is below the number
\* of tokens, so that the next accessor call finds a token at the cursor
C26_HasDataMeansToken ==
    loader.op = "has_data" =>
        (loader.ret = PyBool(TRUE) <=> loader.index < Len(loader.data))

\* the last resolve_pointers call on the list has returned
ResolveReturned == calls >= 1 /\ err = "none" /\ pc \in {"set_entities", "done"}

\* C27: a resolve_pointers call that returns leaves the list as long as it
\* was and every entity at its place with its name, its id and a payload of
\* the same length, in which every token keeps its tag and every token that
\* is no POINTER its value; every attr_ptr is -1 afterwards
C27_ResolveFrame ==
    ResolveReturned =>
        /\ Len(entities) = Len(before)
        /\ \A i \in 1..Len(entities) :
               /\ entities[i].name = before[i].name
               /\ entities[i].id = before[i].id
               /\ entities[i].attr_ptr = PyInt(-1)
               /\ Len(entities[i].data) = Len(before[i].data)
               /\ \A j \in 1..Len(entities[i].data) :
                      /\ entities[i].data[j].tag = before[i].data[j].tag
                      /\ before[i].data[j].tag # POINTER =>
                             entities[i].data[j] = before[i].data[j]

\* resolve_pointers has returned a list with an entity whose attribute index
\* was 1 and whose payload holds a POINTER token and another token
C27_Witness ==
    /\ ResolveReturned
    /\ calls = 1
    /\ \E i \in 1..Len(entities) :
           /\ before[i].attr_ptr = PyInt(1)
           /\ entities[i].attributes = Ref(1)
           /\ \E j, k \in 1..Len(entities[i].data) :
                  /\ before[i].data[j].tag = POINTER
                  /\ entities[i].data[j].value.kind = "ref"
                  /\ before[i].data[k].tag = INT

====
